---- MODULE Spec2Model ----
(***************************************************************************)
(* Model of pyhawkes/internals/impulses.py: the Dirichlet impulse-response *)
(* models DirichletImpulseResponses (one weight vector per ordered pair of *)
(* processes) and SBMDirichletImpulseResponses (one per pair of blocks).   *)
(*                                                                         *)
(* Numbers are exact rationals [n, d] (d > 0, lowest terms): the floating  *)
(* point arithmetic of the source is modelled without rounding, and only   *)
(* finite values are represented.  Arrays are numpy arrays: a shape and a  *)
(* value for every index tuple (indices are 1-based here).  The instance   *)
(* is the variable self, the attribute dictionary of the Python object: an *)
(* attribute exists when its name is in DOMAIN self.                       *)
(*                                                                         *)
(* A vector returned by numpy.random.dirichlet is kept as the sample it    *)
(* is: [kind |-> "dirichlet", alpha |-> the concentration it was drawn     *)
(* from], a point of the probability simplex.  Rows of np.empty and        *)
(* np.zeros that no draw has overwritten are "empty" and "zeros" rows.     *)
(*                                                                         *)
(* assert statements are modelled as executed (Python without -O).         *)
(***************************************************************************)
EXTENDS Integers, Sequences, FiniteSets, TLC

\* ---------------------------------------------------------------- bounds
\* K: number of processes, C: number of blocks, B: number of basis
\* functions, T: number of time bins of the data, MaxCalls: number of
\* method calls made on an instance after its construction.
K == 2
C == 2
B == 2
T == 2
MaxCalls == 2

\* ------------------------------------------------------- exact rationals
Abs(x) == IF x < 0 THEN -x ELSE x

RECURSIVE GCD(_, _)
GCD(a, b) == IF b = 0 THEN a ELSE GCD(b, a % b)

Rat(n, d) ==
    LET s == IF d < 0 THEN -1 ELSE 1
        g == GCD(Abs(n), Abs(d))
    IN  [n |-> (s * n) \div g, d |-> (s * d) \div g]

R(i) == [n |-> i, d |-> 1]
\* (integers need no reduction to lowest terms)
RAdd(x, y) ==
    IF x.d = 1 /\ y.d = 1 THEN [n |-> x.n + y.n, d |-> 1]
    ELSE Rat(x.n * y.d + y.n * x.d, x.d * y.d)
RSub(x, y) ==
    IF x.d = 1 /\ y.d = 1 THEN [n |-> x.n - y.n, d |-> 1]
    ELSE Rat(x.n * y.d - y.n * x.d, x.d * y.d)
RMul(x, y) ==
    IF x.d = 1 /\ y.d = 1 THEN [n |-> x.n * y.n, d |-> 1]
    ELSE Rat(x.n * y.n, x.d * y.d)
RDiv(x, y) == IF y = R(1) THEN x ELSE Rat(x.n * y.d, x.d * y.n)
RPos(x) == x.n > 0

\* ----------------------------------------------------------- numpy arrays
\* An array is its shape and its element at every index tuple of the shape.
RECURSIVE Indices(_)
Indices(shape) ==
    IF shape = <<>> THEN {<<>>}
    ELSE {<<i>> \o r : i \in 1..Head(shape), r \in Indices(Tail(shape))}

MkArray(shape, elems) == [kind |-> "ndarray", shape |-> shape, at |-> elems]
\* a[i] for an index tuple i
At(a, i) == a.at[i]

IsArray(a) == a.kind = "ndarray"
IsNone(a) == a.kind = "None"
IsScalar(a) == a.kind = "scalar"

NoneValue == [kind |-> "None"]
Scalar(v) == [kind |-> "scalar", v |-> v]

npOnes(shape) == MkArray(shape, [i \in Indices(shape) |-> R(1)])
npZeros(shape) == MkArray(shape, [i \in Indices(shape) |-> R(0)])

\* sum of a sequence of numbers, from the first to the last
RECURSIVE RSum(_)
RSum(seq) ==
    IF seq = <<>> THEN R(0)
    ELSE RAdd(RSum(SubSeq(seq, 1, Len(seq) - 1)), seq[Len(seq)])

\* a.sum(axis=0) of an array of rank >= 1
SumAxis0(a) ==
    MkArray(Tail(a.shape),
            [i \in Indices(Tail(a.shape)) |->
                RSum([t \in 1..Head(a.shape) |-> At(a, <<t>> \o i)])])

\* numpy broadcasting of two shapes, aligned at the trailing axes
Pad(shape, n) == [j \in 1..n |-> IF j <= n - Len(shape) THEN 1
                                  ELSE shape[j - (n - Len(shape))]]
Max(x, y) == IF x >= y THEN x ELSE y
Broadcastable(s1, s2) ==
    LET n == Max(Len(s1), Len(s2))
    IN  \A j \in 1..n : \/ Pad(s1, n)[j] = Pad(s2, n)[j]
                        \/ Pad(s1, n)[j] = 1
                        \/ Pad(s2, n)[j] = 1
BShape(s1, s2) ==
    LET n == Max(Len(s1), Len(s2))
    IN  [j \in 1..n |-> Max(Pad(s1, n)[j], Pad(s2, n)[j])]
\* the element of a that index tuple i of the broadcast result reads
BAt(a, i) ==
    LET off == Len(i) - Len(a.shape)
    IN  At(a, [j \in 1..Len(a.shape) |-> IF a.shape[j] = 1 THEN 1 ELSE i[j + off]])

\* a + b and a * b, elementwise with broadcasting (of broadcastable shapes)
AddArrays(a, b) ==
    IF a.shape = b.shape
    THEN MkArray(a.shape, [i \in DOMAIN a.at |-> RAdd(a.at[i], b.at[i])])
    ELSE MkArray(BShape(a.shape, b.shape),
                 [i \in Indices(BShape(a.shape, b.shape)) |->
                     RAdd(BAt(a, i), BAt(b, i))])
MulArrays(a, b) ==
    IF a.shape = b.shape
    THEN MkArray(a.shape, [i \in DOMAIN a.at |-> RMul(a.at[i], b.at[i])])
    ELSE MkArray(BShape(a.shape, b.shape),
                 [i \in Indices(BShape(a.shape, b.shape)) |->
                     RMul(BAt(a, i), BAt(b, i))])
\* scalar * array and array / scalar
Scale(s, a) == MkArray(a.shape, [i \in DOMAIN a.at |-> RMul(s, a.at[i])])
DivideBy(a, s) == MkArray(a.shape, [i \in DOMAIN a.at |-> RDiv(a.at[i], s)])

\* a[k1, k2, :] of a rank-3 array, as a sequence of length shape[3]
Row(a, k1, k2) == [b \in 1..a.shape[3] |-> At(a, <<k1, k2, b>>)]

\* ------------------------------------------------------------------ state
\* self:   the attribute dictionary of the instance under construction or
\*         constructed (a function from attribute names to values)
\* cls:    "none" before any constructor runs, then the name of the class
\* obj:    "none", "constructed" (__init__ returned) or "partial" (__init__
\*         raised; self holds the attributes assigned before the raise)
\* op, args, raised, ret: the last call, its arguments, the exception it
\*         raised ("none" when it returned) and the value it returned
\* calls:  number of method calls made after the constructor
\* repeated: the last call was the same method with the same arguments as
\*         the call before it
VARIABLES self, cls, obj, op, args, raised, ret, calls, repeated

vars == <<self, cls, obj, op, args, raised, ret, calls, repeated>>

NoAttrs == [a \in {} |-> 0]
NoArgs == [a \in {} |-> 0]
NoReturn == [kind |-> "noreturn"]
SetAttr(s, name, v) == [a \in DOMAIN s \cup {name} |-> IF a = name THEN v ELSE s[a]]
HasAttr(s, name) == name \in DOMAIN s

\* outcome of a method: the attributes it leaves, what it raised, its value
Returns(s, v) == [self |-> s, raised |-> "none", ret |-> v]
Raises(s, e) == [self |-> s, raised |-> e, ret |-> NoReturn]

\* ------------------------------------------------- rows of g and draws
EmptyRow(n) == [kind |-> "empty", len |-> n]
ZerosRow(n) == [kind |-> "zeros", len |-> n]
Sample(alpha) == [kind |-> "dirichlet", alpha |-> alpha]
RowLen(row) == IF row.kind = "dirichlet" THEN Len(row.alpha) ELSE row.len
\* entries >= 0 that sum to 1: a Dirichlet sample is such a vector, a row
\* of zeros sums to 0 and an np.empty row holds whatever was in memory
OnSimplex(row) == row.kind = "dirichlet"

\* numpy.random.dirichlet(alpha) raises ValueError when an entry of alpha
\* is <= 0 and returns a sample otherwise
DirichletFails(alpha) == \E b \in 1..Len(alpha) : ~RPos(alpha[b])

\* position of the pair (k1, k2) in the order of the nested loops
PairPos(k1, k2, n) == (k1 - 1) * n + k2

\* for k1: for k2: g[k1,k2,:] = np.random.dirichlet(alpha[k1][k2]) over
\* an n x n array g: the pairs before the first failing draw are
\* overwritten, the others keep their rows, and the loop raises at the
\* failing draw.  FirstFailure is the position of that draw, 0 if none.
FirstFailure(alpha, n) ==
    LET bad == {PairPos(p[1], p[2], n) :
                  p \in {q \in (1..n) \X (1..n) : DirichletFails(alpha[q[1]][q[2]])}}
    IN  IF bad = {} THEN 0 ELSE CHOOSE p \in bad : \A q \in bad : p <= q

DrawLoop(g, alpha, n) ==
    LET f == FirstFailure(alpha, n)
    IN  [k1 \in 1..n |-> [k2 \in 1..n |->
            IF f = 0 \/ PairPos(k1, k2, n) < f
            THEN Sample(alpha[k1][k2]) ELSE g[k1][k2]]]

\* -------------------------------------------- DirichletImpulseResponses
GammaAccepted(gamma, B0) ==
    IsScalar(gamma) \/ (IsArray(gamma) /\ gamma.shape = <<B0>>)

\* PriorOf that drops a scalar gamma and keeps the all-ones prior
PriorOf_scalar_dropped(gamma, B0) ==
    IF IsArray(gamma) THEN gamma ELSE npOnes(<<B0>>)

PriorOf(gamma, B0) ==
    IF ~IsNone(gamma)
    THEN IF IsScalar(gamma) THEN Scale(gamma.v, npOnes(<<B0>>)) ELSE gamma
    ELSE npOnes(<<B0>>)

get_suff_statistics(s, data) ==
    IF ~IsNone(data)
    THEN IF IsArray(data) THEN Returns(s, SumAxis0(data))
         ELSE Raises(s, "AttributeError")
    ELSE Returns(s, npZeros(<<s.K, s.K, s.B>>))

\* DataAccepted without the comparison of the process axes with K
DataAccepted_no_K(s, data) ==
    \/ IsNone(data)
    \/ /\ IsArray(data)
       /\ Len(data.shape) = 4
       /\ data.shape[2] = data.shape[3]
       /\ data.shape[4] = s.B

DataAccepted(s, data) ==
    \/ IsNone(data)
    \/ /\ IsArray(data)
       /\ Len(data.shape) = 4
       /\ data.shape[2] = data.shape[3]
       /\ data.shape[3] = s.K
       /\ data.shape[4] = s.B

\* alpha_post with the source and target indices of ss exchanged
alpha_post_transposed(s, ss, k1, k2) ==
    [b \in 1..s.B |-> RAdd(At(s.gamma, <<b>>), At(ss, <<k2, k1, b>>))]

alpha_post(s, ss, k1, k2) ==
    [b \in 1..s.B |-> RAdd(At(s.gamma, <<b>>), At(ss, <<k1, k2, b>>))]

resample(s, data) ==
    IF ~DataAccepted(s, data) THEN Raises(s, "AssertionError")
    ELSE LET ss == get_suff_statistics(s, data).ret
             alpha == [k1 \in 1..s.K |-> [k2 \in 1..s.K |->
                          alpha_post(s, ss, k1, k2)]]
             s1 == SetAttr(s, "g", DrawLoop(s.g, alpha, s.K))
         IN  IF FirstFailure(alpha, s.K) = 0
             THEN Returns(s1, NoneValue) ELSE Raises(s1, "ValueError")

\* gamma[None, None, :]
Lift3(gamma) ==
    MkArray(<<1, 1, gamma.shape[1]>>,
            [i \in Indices(<<1, 1, gamma.shape[1]>>) |-> At(gamma, <<i[3]>>)])

init(K0, B0, gamma) ==
    LET s0 == SetAttr(SetAttr(NoAttrs, "K", K0), "B", B0)
    IN  IF ~IsNone(gamma) /\ ~GammaAccepted(gamma, B0)
        THEN Raises(s0, "AssertionError")
        ELSE LET s1 == SetAttr(s0, "gamma", PriorOf(gamma, B0))
                 s2 == SetAttr(s1, "g",
                           [k1 \in 1..K0 |-> [k2 \in 1..K0 |-> EmptyRow(B0)]])
                 r == resample(s2, NoneValue)
             IN  IF r.raised # "none" THEN r
                 ELSE Returns(SetAttr(r.self, "mf_gamma",
                                 MulArrays(Lift3(s1.gamma),
                                             npOnes(<<K0, K0, B0>>))),
                              NoneValue)

rvs(s) == Returns(s, NoneValue)

expected_log_likelihood(s, x) == Returns(s, NoneValue)

\* mf_update_gamma variants: the old value kept at full weight, the update
\* added to the current mf_gamma instead of the prior, and the weight of
\* the old value with its sign reversed
MixInto(s, gamma_hat, keep, stepsize) ==
    Returns(SetAttr(s, "mf_gamma",
                AddArrays(Scale(keep, s.mf_gamma),
                                  Scale(stepsize, gamma_hat))),
            NoneValue)

mf_update_gamma_undamped(s, EZ, minibatchfrac, stepsize) ==
    IF IsArray(EZ) /\ Broadcastable(s.mf_gamma.shape, Tail(EZ.shape))
    THEN MixInto(s, AddArrays(s.gamma,
                        DivideBy(SumAxis0(EZ), minibatchfrac)), R(1), stepsize)
    ELSE Raises(s, "ValueError")

mf_update_gamma_accumulating(s, EZ, minibatchfrac, stepsize) ==
    IF IsArray(EZ) /\ Broadcastable(s.mf_gamma.shape, Tail(EZ.shape))
    THEN MixInto(s, AddArrays(s.mf_gamma,
                        DivideBy(SumAxis0(EZ), minibatchfrac)),
                 RSub(R(1), stepsize), stepsize)
    ELSE Raises(s, "ValueError")

mf_update_gamma_sign(s, EZ, minibatchfrac, stepsize) ==
    IF IsArray(EZ) /\ Broadcastable(s.mf_gamma.shape, Tail(EZ.shape))
    THEN MixInto(s, AddArrays(s.gamma,
                        DivideBy(SumAxis0(EZ), minibatchfrac)),
                 RSub(stepsize, R(1)), stepsize)
    ELSE Raises(s, "ValueError")

\* line 129 raises when gamma and EZ.sum(axis=0) cannot be broadcast, line
\* 130 when mf_gamma and gamma_hat cannot; the attribute is assigned last
mf_update_gamma(s, EZ, minibatchfrac, stepsize) ==
    IF ~IsArray(EZ) THEN Raises(s, "AttributeError")
    ELSE IF ~Broadcastable(s.gamma.shape, Tail(EZ.shape))
    THEN Raises(s, "ValueError")
    ELSE IF ~Broadcastable(s.mf_gamma.shape,
                           BShape(s.gamma.shape, Tail(EZ.shape)))
    THEN Raises(s, "ValueError")
    ELSE Returns(SetAttr(s, "mf_gamma",
            AddArrays(Scale(RSub(R(1), stepsize), s.mf_gamma),
                      Scale(stepsize,
                            AddArrays(s.gamma,
                                      DivideBy(SumAxis0(EZ), minibatchfrac))))),
            NoneValue)

meanfieldupdate(s, EZ) == mf_update_gamma(s, EZ, R(1), R(1))

meanfield_sgdstep(s, EZ, minibatchfrac, stepsize) ==
    mf_update_gamma(s, EZ, minibatchfrac, stepsize)

resample_from_mf(s) ==
    LET zeros == [k1 \in 1..s.K |-> [k2 \in 1..s.K |-> ZerosRow(s.B)]]
        alpha == [k1 \in 1..s.K |-> [k2 \in 1..s.K |-> Row(s.mf_gamma, k1, k2)]]
        s1 == SetAttr(s, "g", DrawLoop(zeros, alpha, s.K))
    IN  IF FirstFailure(alpha, s.K) = 0
        THEN Returns(s1, NoneValue) ELSE Raises(s1, "ValueError")

\* ----------------------------------------- SBMDirichletImpulseResponses
sbm_resample(s, data) == Raises(s, "NotImplementedError")

sbm_init(C0, K0, B0, gamma) ==
    LET s0 == SetAttr(SetAttr(SetAttr(NoAttrs, "C", C0), "K", K0), "B", B0)
    IN  IF ~IsNone(gamma) /\ ~GammaAccepted(gamma, B0)
        THEN Raises(s0, "AssertionError")
        ELSE LET s1 == SetAttr(s0, "gamma", PriorOf(gamma, B0))
                 s2 == SetAttr(s1, "blockg",
                           [c1 \in 1..C0 |-> [c2 \in 1..C0 |-> EmptyRow(B0)]])
                 r == sbm_resample(s2, NoneValue)
             IN  IF r.raised # "none" THEN r
                 ELSE Returns(SetAttr(r.self, "mf_gamma",
                                 MulArrays(Lift3(s1.gamma),
                                             npOnes(<<C0, C0, B0>>))),
                              NoneValue)

sbm_rvs(s) == Raises(s, "NotImplementedError")
sbm_log_likelihood(s, x) == Raises(s, "NotImplementedError")
\* return self.log_likelihood(self.g): the argument is evaluated first
sbm_log_probability(s) ==
    IF ~HasAttr(s, "g") THEN Raises(s, "AttributeError")
    ELSE sbm_log_likelihood(s, s.g)
sbm_get_suff_statistics(s, data) == Raises(s, "NotImplementedError")
sbm_expected_g(s) == Raises(s, "NotImplementedError")
sbm_expected_log_g(s) == Raises(s, "NotImplementedError")
sbm_mf_update_gamma(s, EZ) == Raises(s, "NotImplementedError")
sbm_expected_log_likelihood(s, x) == Raises(s, "NotImplementedError")
sbm_meanfieldupdate(s, EZ) == Raises(s, "NotImplementedError")
sbm_get_vlb(s) == Raises(s, "NotImplementedError")
sbm_resample_from_mf(s) == Raises(s, "NotImplementedError")

\* ----------------------------------------------------------------- inputs
ValidShape == <<T, K, K, B>>
\* arrays of ValidShape: entries that differ along every axis; 1 at the
\* first pair and -2 at the others (gamma + the time sum is <= 0 there)
Weighted ==
    MkArray(ValidShape, [i \in Indices(ValidShape) |->
                            R(i[1] + 2 * i[2] + 3 * i[3] + 4 * i[4])])
PartNeg ==
    MkArray(ValidShape, [i \in Indices(ValidShape) |->
                            IF i[2] = 1 /\ i[3] = 1 THEN R(1) ELSE R(-2)])
BadShapes == {<<K, K, B>>, <<T, K + 1, K + 1, B>>, <<T, K, K, B + 1>>}
PyList == [kind |-> "list"]

GammaInputs ==
    {NoneValue, Scalar(R(1)), Scalar(R(2)), Scalar(R(0)),
     MkArray(<<B>>, [i \in Indices(<<B>>) |-> R(i[1])]),
     MkArray(<<B>>, [i \in Indices(<<B>>) |-> R(i[1] - 1)]),
     npOnes(<<B + 1>>), npOnes(<<1, B>>), PyList}

DataInputs ==
    {NoneValue, PyList, npOnes(ValidShape), Weighted, PartNeg}
    \cup {npOnes(sh) : sh \in BadShapes}

EZInputs ==
    {npZeros(ValidShape), Weighted, PartNeg, npOnes(<<T, K, K, B + 1>>)}

\* minibatchfrac is never 0: x / 0 is not a finite number
Fracs == {R(1), Rat(1, 2), R(-1)}
StepSizes == {R(0), Rat(1, 2), R(1), R(2)}

\* ---------------------------------------------------------------- actions
Init ==
    /\ self = NoAttrs
    /\ cls = "none"
    /\ obj = "none"
    /\ op = "none"
    /\ args = NoArgs
    /\ raised = "none"
    /\ ret = NoReturn
    /\ calls = 0
    /\ repeated = FALSE

\* a constructor can run; a method of class c can be called on the instance
Unbuilt == cls = "none"
Ready(c, o) == cls = c /\ obj = o /\ calls < MaxCalls

Construct(c, a, r) ==
    /\ Unbuilt
    /\ cls' = c
    /\ self' = r.self
    /\ obj' = IF r.raised = "none" THEN "constructed" ELSE "partial"
    /\ op' = "__init__"
    /\ args' = a
    /\ raised' = r.raised
    /\ ret' = r.ret
    /\ calls' = 0
    /\ repeated' = FALSE

Call(c, o, name, a, r) ==
    /\ Ready(c, o)
    /\ LET outcome == r
       IN  /\ self' = outcome.self
           /\ raised' = outcome.raised
           /\ ret' = outcome.ret
    /\ op' = name
    /\ args' = a
    /\ calls' = calls + 1
    /\ repeated' = (op = name /\ args = a)
    /\ UNCHANGED <<cls, obj>>

Dir == "DirichletImpulseResponses"
Sbm == "SBMDirichletImpulseResponses"

DirInit(gamma) == Construct(Dir, [gamma |-> gamma], init(K, B, gamma))

DirCall(name, a, r) == Call(Dir, "constructed", name, a, r)

Rvs == DirCall("rvs", NoArgs, rvs(self))

ExpectedLogLikelihood(x) ==
    DirCall("expected_log_likelihood", [x |-> x], expected_log_likelihood(self, x))

GetSuffStatistics(data) ==
    DirCall("_get_suff_statistics", [data |-> data], get_suff_statistics(self, data))

Resample(data) == DirCall("resample", [data |-> data], resample(self, data))

MeanFieldUpdate(EZ) ==
    DirCall("meanfieldupdate", [EZ |-> EZ], meanfieldupdate(self, EZ))

MeanFieldSgdStep(EZ, minibatchfrac, stepsize) ==
    DirCall("meanfield_sgdstep",
            [EZ |-> EZ, minibatchfrac |-> minibatchfrac, stepsize |-> stepsize],
            meanfield_sgdstep(self, EZ, minibatchfrac, stepsize))

ResampleFromMf == DirCall("resample_from_mf", NoArgs, resample_from_mf(self))

\* The constructor of the block-pair class raises on every path, so its
\* methods can only ever run on the instance that the constructor left
\* partially initialised.
SbmInit(gamma) == Construct(Sbm, [gamma |-> gamma], sbm_init(C, K, B, gamma))

SbmCall(name, r) == Call(Sbm, "partial", name, NoArgs, r)

SbmRvs == SbmCall("rvs", sbm_rvs(self))
SbmLogLikelihood == SbmCall("log_likelihood", sbm_log_likelihood(self, NoneValue))
SbmLogProbability == SbmCall("log_probability", sbm_log_probability(self))
SbmGetSuffStatistics ==
    SbmCall("_get_suff_statistics", sbm_get_suff_statistics(self, NoneValue))
SbmResample == SbmCall("resample", sbm_resample(self, NoneValue))
SbmExpectedG == SbmCall("expected_g", sbm_expected_g(self))
SbmExpectedLogG == SbmCall("expected_log_g", sbm_expected_log_g(self))
SbmMfUpdateGamma == SbmCall("mf_update_gamma", sbm_mf_update_gamma(self, NoneValue))
SbmExpectedLogLikelihood ==
    SbmCall("expected_log_likelihood", sbm_expected_log_likelihood(self, NoneValue))
SbmMeanFieldUpdate == SbmCall("meanfieldupdate", sbm_meanfieldupdate(self, NoneValue))
SbmGetVlb == SbmCall("get_vlb", sbm_get_vlb(self))
SbmResampleFromMf == SbmCall("resample_from_mf", sbm_resample_from_mf(self))

Next ==
    \/ /\ Unbuilt
       /\ \/ \E gamma \in GammaInputs : DirInit(gamma)
          \/ \E gamma \in GammaInputs : SbmInit(gamma)
    \/ /\ Ready(Dir, "constructed")
       /\ \/ Rvs
          \/ ExpectedLogLikelihood(NoneValue)
          \/ \E data \in DataInputs : GetSuffStatistics(data)
          \/ \E data \in DataInputs : Resample(data)
          \/ \E EZ \in EZInputs : MeanFieldUpdate(EZ)
          \/ \E EZ \in EZInputs, f \in Fracs, st \in StepSizes :
                MeanFieldSgdStep(EZ, f, st)
          \/ ResampleFromMf
    \/ /\ Ready(Sbm, "partial")
       /\ \/ SbmRvs
          \/ SbmLogLikelihood
          \/ SbmLogProbability
          \/ SbmGetSuffStatistics
          \/ SbmResample
          \/ SbmExpectedG
          \/ SbmExpectedLogG
          \/ SbmMfUpdateGamma
          \/ SbmExpectedLogLikelihood
          \/ SbmMeanFieldUpdate
          \/ SbmGetVlb
          \/ SbmResampleFromMf

Spec == Init /\ [][Next]_vars

\* ------------------------------------------------------------ properties
Pairs(n) == (1..n) \X (1..n)
DirLive == cls = Dir /\ obj = "constructed"
DirCalled(name) == DirLive /\ calls > 0 /\ op = name
\* the step is a call of method name on the constructed process-pair model
DirCallStep(name) == DirLive /\ calls' = calls + 1 /\ op' = name
\* the prior the constructor derives from its gamma argument, entry b
PriorEntry(gamma, b) ==
    IF IsNone(gamma) THEN R(1)
    ELSE IF IsScalar(gamma) THEN gamma.v ELSE At(gamma, <<b>>)
\* sum over the time axis of a (T, K, K, B) array at [k1, k2, b]
TimeSum(a, k1, k2, b) == RSum([t \in 1..a.shape[1] |-> At(a, <<t, k1, k2, b>>)])
HasValidShape(a) == IsArray(a) /\ a.shape = <<T, K, K, B>>
NonNegative(a) == \A i \in Indices(a.shape) : At(a, i).n >= 0
AllPositive(a) == \A i \in Indices(a.shape) : RPos(At(a, i))
GShape(g, n, m) ==
    /\ DOMAIN g = 1..n
    /\ \A k1 \in 1..n : DOMAIN g[k1] = 1..n
                        /\ \A k2 \in 1..n : RowLen(g[k1][k2]) = m

\* C1: constructing the block-pair model with gamma absent, a scalar or a
\* length-B vector completes without raising and leaves blockg of shape
\* C x C x B and mf_gamma[c1, c2, :] equal to the prior for every block pair.
C1_SbmConstructionCompletes ==
    (cls = Sbm /\ calls = 0
       /\ (IsNone(args.gamma) \/ GammaAccepted(args.gamma, B)))
    => /\ raised = "none"
       /\ HasAttr(self, "blockg") /\ GShape(self.blockg, C, B)
       /\ HasAttr(self, "mf_gamma")
       /\ \A p \in Pairs(C), b \in 1..B :
             At(self.mf_gamma, <<p[1], p[2], b>>) = PriorEntry(args.gamma, b)

\* C2: a call of resample, resample_from_mf, meanfieldupdate or
\* meanfield_sgdstep on the process-pair model that raises leaves g and
\* mf_gamma exactly as they were before the call.
C2_RaiseLeavesStateUntouched ==
    [][(/\ \E name \in {"resample", "resample_from_mf", "meanfieldupdate",
                        "meanfield_sgdstep"} : DirCallStep(name)
        /\ raised' # "none")
       => (self'.g = self.g /\ self'.mf_gamma = self.mf_gamma)]_vars

\* C3: resample(data) with data None or a (T, K, K, B) array of
\* non-negative counts completes and leaves every g[k1, k2, :] a draw from
\* the Dirichlet with concentration gamma + sum over t of data[t, k1, k2, :]
\* (gamma alone when data is None).
C3_ResampleConcentration ==
    (DirCalled("resample")
       /\ (IsNone(args.data)
           \/ (HasValidShape(args.data) /\ NonNegative(args.data))))
    => /\ raised = "none"
       /\ \A p \in Pairs(K) :
            /\ self.g[p[1]][p[2]].kind = "dirichlet"
            /\ self.g[p[1]][p[2]].alpha =
                 [b \in 1..B |->
                    IF IsNone(args.data) THEN At(self.gamma, <<b>>)
                    ELSE RAdd(At(self.gamma, <<b>>),
                              TimeSum(args.data, p[1], p[2], b))]

C3_Witness ==
    /\ DirCalled("resample")
    /\ args.data = Weighted
    /\ raised = "none"
    /\ calls = 2

\* C4: meanfieldupdate(EZ), and meanfield_sgdstep(EZ, 1.0, 1.0), with EZ of
\* shape (T, K, K, B) set mf_gamma[k1, k2, b] to gamma[b] + sum over t of
\* EZ[t, k1, k2, b], whatever mf_gamma was before.
FullBatchCall ==
    \/ DirCalled("meanfieldupdate")
    \/ /\ DirCalled("meanfield_sgdstep")
       /\ args.minibatchfrac = R(1)
       /\ args.stepsize = R(1)

C4_FullBatchUpdate ==
    (FullBatchCall /\ HasValidShape(args.EZ))
    => /\ raised = "none"
       /\ self.mf_gamma.shape = <<K, K, B>>
       /\ \A p \in Pairs(K), b \in 1..B :
            At(self.mf_gamma, <<p[1], p[2], b>>) =
               RAdd(At(self.gamma, <<b>>), TimeSum(args.EZ, p[1], p[2], b))

C4_Witness ==
    /\ DirCalled("meanfield_sgdstep")
    /\ args.minibatchfrac = R(1)
    /\ args.stepsize = R(1)
    /\ args.EZ = Weighted
    /\ calls = 2
    /\ ~repeated
    /\ \A p \in Pairs(K), b \in 1..B :
          At(self.mf_gamma, <<p[1], p[2], b>>) =
              RAdd(At(self.gamma, <<b>>), TimeSum(Weighted, p[1], p[2], b))

\* C5 as stated: the second of two consecutive meanfield_sgdstep calls with
\* the same EZ (non-zero time sum), stepsize 1.0 and minibatchfrac 1.0
\* changes mf_gamma.
SecondFullStep ==
    /\ DirCallStep("meanfield_sgdstep")
    /\ op = "meanfield_sgdstep"
    /\ raised = "none"
    /\ args' = args
    /\ args.minibatchfrac = R(1)
    /\ args.stepsize = R(1)
    /\ HasValidShape(args.EZ)
    /\ \E p \in Pairs(K), b \in 1..B : TimeSum(args.EZ, p[1], p[2], b) # R(0)

C5_SecondCallAccumulates ==
    [][SecondFullStep => self'.mf_gamma # self.mf_gamma]_vars

\* C5 amended: the second of two such calls completes and leaves mf_gamma
\* as the first call left it (the full-batch step is idempotent).
C5_SecondCallIdempotent ==
    [][SecondFullStep => (raised' = "none" /\ self'.mf_gamma = self.mf_gamma)]_vars

C5_Witness ==
    /\ DirCalled("meanfield_sgdstep")
    /\ repeated
    /\ raised = "none"
    /\ args.minibatchfrac = R(1)
    /\ args.stepsize = R(1)
    /\ args.EZ = Weighted

\* C6: every unsupported operation (rvs and expected_log_likelihood of the
\* process-pair model, every operation of the block-pair model other than
\* construction) ends in NotImplementedError.
C6_UnsupportedRaisesNotImplemented ==
    (\/ DirCalled("rvs")
     \/ DirCalled("expected_log_likelihood")
     \/ (cls = Sbm /\ calls > 0))
    => raised = "NotImplementedError"

\* C7 as stated: the sufficient-statistics operation rejects non-None data
\* that is not rank 4 or whose target or source axis differs from K.
BadDataShape(data) ==
    \/ ~IsArray(data)
    \/ Len(data.shape) # 4
    \/ data.shape[2] # K
    \/ data.shape[3] # K

C7_SuffStatsValidates ==
    (DirCalled("_get_suff_statistics")
       /\ ~IsNone(args.data) /\ BadDataShape(args.data))
    => raised = "AssertionError"

\* C7 amended: the validation is made by resample, which rejects such data
\* (and data whose basis axis differs from B) with AssertionError before
\* it changes anything; the sufficient-statistics operation itself
\* validates nothing and returns the sum over axis 0 of any array.
C7_ResampleValidates ==
    [][/\ (DirCallStep("resample") /\ ~IsNone(args'.data)
             /\ (BadDataShape(args'.data) \/ args'.data.shape[4] # B))
          => (raised' = "AssertionError" /\ self' = self)
       /\ (DirCallStep("_get_suff_statistics") /\ IsArray(args'.data))
          => /\ raised' = "none"
             /\ self' = self
             /\ ret'.shape = Tail(args'.data.shape)
             /\ \A i \in Indices(ret'.shape) :
                   At(ret', i) = RSum([t \in 1..args'.data.shape[1] |->
                                         At(args'.data, <<t>> \o i)])]_vars

C7_Witness ==
    /\ DirCalled("resample")
    /\ args.data = npOnes(<<T, K + 1, K + 1, B>>)
    /\ raised = "AssertionError"

\* C8: in every state of a constructed process-pair model g has shape
\* (K, K, B) and every g[k1, k2, :] lies on the probability simplex.
C8_SimplexInvariant ==
    DirLive => /\ GShape(self.g, K, B)
               /\ \A p \in Pairs(K) : OnSimplex(self.g[p[1]][p[2]])

\* C9: mf_gamma equals the prior for every pair right after construction,
\* only the mean-field calls change it, and a meanfieldupdate or
\* meanfield_sgdstep call with EZ >= 0, minibatchfrac > 0 and
\* 0 <= stepsize <= 1 keeps every entry of mf_gamma > 0.
ValidMeanFieldArgs(name, a) ==
    /\ IsArray(a.EZ) /\ NonNegative(a.EZ)
    /\ name = "meanfield_sgdstep"
       => /\ RPos(a.minibatchfrac)
          /\ a.stepsize.n >= 0
          /\ RSub(R(1), a.stepsize).n >= 0

MeanFieldOps == {"meanfieldupdate", "meanfield_sgdstep"}

C9_MfGammaPositive ==
    [][/\ (cls' = Dir /\ op' = "__init__" /\ raised' = "none")
          => /\ AllPositive(self'.mf_gamma)
             /\ \A p \in Pairs(K), b \in 1..B :
                  At(self'.mf_gamma, <<p[1], p[2], b>>) = At(self'.gamma, <<b>>)
       /\ (DirLive /\ calls' = calls + 1)
          => IF op' \in MeanFieldOps
             THEN (ValidMeanFieldArgs(op', args') /\ AllPositive(self.mf_gamma))
                     => AllPositive(self'.mf_gamma)
             ELSE self'.mf_gamma = self.mf_gamma]_vars

C9_Witness ==
    /\ DirCalled("meanfield_sgdstep")
    /\ calls = 2
    /\ raised = "none"
    /\ args.EZ = npZeros(ValidShape)
    /\ args.minibatchfrac = Rat(1, 2)
    /\ args.stepsize = Rat(1, 2)
    /\ AllPositive(self.mf_gamma)
    /\ \E i \in Indices(self.mf_gamma.shape) : At(self.mf_gamma, i).d > 1

\* C10: the constructor of the process-pair model completes only for gamma
\* absent (prior all ones), a scalar (prior that scalar, B times) or a
\* length-B array (prior as given); any other gamma is rejected with
\* AssertionError before g or mf_gamma exist.
C10_GammaValidation ==
    (cls = Dir /\ op = "__init__")
    => LET gamma == args.gamma
           wellShaped == \/ IsNone(gamma)
                         \/ IsScalar(gamma)
                         \/ (IsArray(gamma) /\ gamma.shape = <<B>>)
       IN  /\ obj = "constructed"
              => /\ wellShaped
                 /\ self.gamma.shape = <<B>>
                 /\ \A b \in 1..B : At(self.gamma, <<b>>) = PriorEntry(gamma, b)
           /\ ~wellShaped
              => /\ raised = "AssertionError"
                 /\ ~HasAttr(self, "g")
                 /\ ~HasAttr(self, "mf_gamma")

C10_Witness ==
    /\ cls = Dir /\ op = "__init__"
    /\ args.gamma = npOnes(<<B + 1>>)
    /\ raised = "AssertionError"

====
